---- MODULE Spec2Model ----
(***************************************************************************)
(* citationlint: the reference-section parsing and citation/DOI            *)
(* association pipeline (extractor.py) and the DOI verification front end  *)
(* (verifier.py).                                                          *)
(*                                                                         *)
(* Text is a sequence of one-character strings.  Positions are Python      *)
(* offsets: offset i (0 <= i <= Len(t)) sits before the character t[i+1].  *)
(* The regular expressions of the source are modelled by the matches the   *)
(* Python re engine finds for them (leftmost match, greedy and lazy        *)
(* quantifiers, backtracking), over ASCII text.                            *)
(***************************************************************************)
EXTENDS Integers, Sequences, FiniteSets, TLC

VARIABLES
    pdf,               \* the document the path names: kind, text, pages
    pc,                \* position inside extract_citations
    full_text,         \* extract_citations: full_text
    page_count,        \* extract_citations: page_count
    section,           \* what find_references_section returned: by, start, text
    ref_text,          \* extract_citations: ref_text
    all_dois,          \* extract_citations: all_dois
    parsed_citations,  \* extract_citations: parsed_citations
    result,            \* the ExtractionResult returned
    vpc,               \* position inside verify_doi
    doi_arg,           \* verify_doi: the argument doi
    cleaned_doi,       \* verify_doi: cleaned_doi
    requests,          \* the registry requests issued so far (their DOI path)
    vresult            \* the VerificationResult returned

vars == <<pdf, pc, full_text, page_count, section, ref_text, all_dois,
          parsed_citations, result, vpc, doi_arg, cleaned_doi, requests, vresult>>

extractor_vars == <<pdf, pc, full_text, page_count, section, ref_text, all_dois,
                    parsed_citations, result>>

verifier_vars == <<vpc, doi_arg, cleaned_doi, requests, vresult>>

None == "None"

(***************************************************************************)
(* Characters.                                                             *)
(***************************************************************************)
Digits == {"0", "1", "2", "3", "4", "5", "6", "7", "8", "9"}

DigitSeq == <<"0", "1", "2", "3", "4", "5", "6", "7", "8", "9">>

Uppers == <<"A", "B", "C", "D", "E", "F", "G", "H", "I", "J", "K", "L", "M",
            "N", "O", "P", "Q", "R", "S", "T", "U", "V", "W", "X", "Y", "Z">>

Lowers == <<"a", "b", "c", "d", "e", "f", "g", "h", "i", "j", "k", "l", "m",
            "n", "o", "p", "q", "r", "s", "t", "u", "v", "w", "x", "y", "z">>

UpperSet == {Uppers[k] : k \in DOMAIN Uppers}

LowerSet == {Lowers[k] : k \in DOMAIN Lowers}

LowerOf == [c \in UpperSet |-> Lowers[CHOOSE k \in DOMAIN Uppers : Uppers[k] = c]]

\* str.lower() on one character
ToLower(c) == IF c \in UpperSet THEN LowerOf[c] ELSE c

\* str.lower()
Lower(s) == [i \in 1..Len(s) |-> ToLower(s[i])]

\* \s and str.strip(): white space
Whitespace == {" ", "\t", "\n", "\r"}

\* \w, as \b reads it
WordChars == UpperSet \cup LowerSet \cup Digits \cup {"_"}

Rep(c, n) == [i \in 1..n |-> c]

(***************************************************************************)
(* Scanning primitives.                                                    *)
(***************************************************************************)
\* The least i in lo..hi with P(i), or -1.
First(lo, hi, P(_)) ==
    LET S == {i \in lo..hi : P(i)}
    IN  IF S = {} THEN -1 ELSE CHOOSE i \in S : \A m \in S : i <= m

\* The greatest i in lo..hi with P(i), or -1.
Last(lo, hi, P(_)) ==
    LET S == {i \in lo..hi : P(i)}
    IN  IF S = {} THEN -1 ELSE CHOOSE i \in S : \A m \in S : i >= m

\* A greedy run of characters of C from offset i: the offset where it ends.
RunEnd(t, i, C) ==
    CHOOSE k \in i..Len(t) :
        /\ (k = Len(t) \/ t[k+1] \notin C)
        /\ \A m \in i..(k-1) : t[m+1] \in C

\* A greedy run of characters outside C from offset i: the offset where it ends.
RunEndNot(t, i, C) ==
    CHOOSE k \in i..Len(t) :
        /\ (k = Len(t) \/ t[k+1] \in C)
        /\ \A m \in i..(k-1) : t[m+1] \notin C

\* t[i:j]
Slice(t, i, j) == SubSeq(t, i + 1, j)

\* the literal w at offset i of t, ignoring case (re.IGNORECASE); w is lower case
LiteralAt(t, i, w) ==
    /\ i + Len(w) <= Len(t)
    /\ \A k \in 1..Len(w) : ToLower(t[i+k]) = w[k]

\* str.rstrip(chars)
RStrip(s, C) ==
    LET k == CHOOSE k \in 0..Len(s) :
                 /\ (k = 0 \/ s[k] \notin C)
                 /\ \A m \in (k+1)..Len(s) : s[m] \in C
    IN  SubSeq(s, 1, k)

\* str.lstrip(chars)
LStrip(s, C) == Slice(s, RunEnd(s, 0, C), Len(s))

\* str.strip()
Strip(s) == LStrip(RStrip(s, Whitespace), Whitespace)

\* a in b (substring)
IsSubstring(a, b) ==
    \E k \in 0..(Len(b) - Len(a)) : \A m \in 1..Len(a) : b[k+m] = a[m]

\* str.startswith(prefix)
StartsWith(s, p) == Len(p) <= Len(s) /\ \A k \in 1..Len(p) : s[k] = p[k]

\* int() of a string of decimal digits
RECURSIVE ParseInt(_)
ParseInt(s) ==
    IF s = <<>> THEN 0
    ELSE 10 * ParseInt(SubSeq(s, 1, Len(s) - 1))
         + ((CHOOSE k \in DOMAIN DigitSeq : DigitSeq[k] = s[Len(s)]) - 1)

(***************************************************************************)
(* DOI_PATTERN: 10\. then \d{4,9} then / then one or more characters    *)
(* outside the class of white space, brackets, angle brackets, quotes,    *)
(* braces, bar, backslash, caret and backtick.                            *)
(***************************************************************************)
MinRegistrantDigits == 4

MaxRegistrantDigits == 9

\* the backtick character (a TLA+ string cannot hold it)
Backtick == "BACKTICK"

\* the characters the suffix class excludes
DoiSuffixExcluded ==
    Whitespace \cup {"[", "]", "<", ">", "\"", "'", "{", "}", "|", "\\", "^", Backtick}

\* The end of the match of DOI_PATTERN that starts at offset i, or -1.
\* \d{4,9} is greedy and is followed by a slash, so the run of digits must be
\* the whole run and have 4 to 9 digits.
DOI_PATTERN(t, i) ==
    IF ~(i + 3 <= Len(t) /\ t[i+1] = "1" /\ t[i+2] = "0" /\ t[i+3] = ".")
    THEN -1
    ELSE LET d == RunEnd(t, i + 3, Digits)
         IN  IF /\ d - (i + 3) >= MinRegistrantDigits
                /\ d - (i + 3) <= MaxRegistrantDigits
                /\ d < Len(t)
                /\ t[d+1] = "/"
                /\ RunEndNot(t, d + 1, DoiSuffixExcluded) > d + 1
             THEN RunEndNot(t, d + 1, DoiSuffixExcluded)
             ELSE -1

\* DOI_PATTERN.search(t): whether some match exists
DoiSearch(t) == \E i \in 0..(Len(t) - 1) : DOI_PATTERN(t, i) # -1

\* DOI_PATTERN.findall(t) from offset pos on: the matched strings, in order
RECURSIVE DoiFindAll(_, _)
DoiFindAll(t, pos) ==
    LET s == First(pos, Len(t) - 1, LAMBDA i : DOI_PATTERN(t, i) # -1)
        e == DOI_PATTERN(t, s)
    IN  IF s = -1 THEN <<>> ELSE <<Slice(t, s, e)>> \o DoiFindAll(t, e)

(***************************************************************************)
(* clean_doi (extractor.py)                                                *)
(***************************************************************************)
\* the characters doi.rstrip strips: . , ; : ) ] } and both quotes
TrailingPunctuation == {".", ",", ";", ":", ")", "]", "}", "'", "\""}

\* the end of the match of &[a-z]+; that starts at offset i, or -1
EntityAt(t, i) ==
    IF i < Len(t) /\ t[i+1] = "&"
    THEN LET e == RunEnd(t, i + 1, LowerSet)
         IN  IF e > i + 1 /\ e < Len(t) /\ t[e+1] = ";" THEN e + 1 ELSE -1
    ELSE -1

\* re.sub(r'&[a-z]+;', '', t): one pass, left to right, over the original string
RECURSIVE RemoveEntities(_)
RemoveEntities(t) ==
    LET s == First(0, Len(t) - 1, LAMBDA i : EntityAt(t, i) # -1)
    IN  IF s = -1 THEN t
        ELSE Slice(t, 0, s) \o RemoveEntities(Slice(t, EntityAt(t, s), Len(t)))

clean_doi(doi) == RemoveEntities(RStrip(doi, TrailingPunctuation))

(***************************************************************************)
(* extract_dois                                                            *)
(***************************************************************************)
MinDoiLength == 10

\* the loop over matches: cleaned is the list so far, seen the lower-cased set
RECURSIVE DedupDois(_, _, _)
DedupDois(matches, cleaned, seen) ==
    IF matches = <<>> THEN cleaned
    ELSE LET doi == clean_doi(Head(matches))
             doi_lower == Lower(doi)
         IN  IF doi_lower \notin seen /\ Len(doi) > MinDoiLength
             THEN DedupDois(Tail(matches), Append(cleaned, doi), seen \cup {doi_lower})
             ELSE DedupDois(Tail(matches), cleaned, seen)

extract_dois(text) == DedupDois(DoiFindAll(text, 0), <<>>, {})

(***************************************************************************)
(* The words of the header and end patterns.                               *)
(***************************************************************************)
W_references ==
    <<"r", "e", "f", "e", "r", "e", "n", "c", "e", "s">>

W_bibliography ==
    <<"b", "i", "b", "l", "i", "o", "g", "r", "a", "p", "h", "y">>

W_works ==
    <<"w", "o", "r", "k", "s">>

W_cited ==
    <<"c", "i", "t", "e", "d">>

W_literature ==
    <<"l", "i", "t", "e", "r", "a", "t", "u", "r", "e">>

W_appendix ==
    <<"a", "p", "p", "e", "n", "d", "i", "x">>

W_appendices ==
    <<"a", "p", "p", "e", "n", "d", "i", "c", "e", "s">>

W_supplementary ==
    <<"s", "u", "p", "p", "l", "e", "m", "e", "n", "t", "a", "r", "y">>

W_acknowledgment ==
    <<"a", "c", "k", "n", "o", "w", "l", "e", "d", "g", "m", "e", "n", "t">>

W_acknowledgments ==
    <<"a", "c", "k", "n", "o", "w", "l", "e", "d", "g", "m", "e", "n", "t", "s">>

(***************************************************************************)
(* find_references_section                                                 *)
(***************************************************************************)
\* REFERENCE_HEADERS: each pattern is \b, words joined by \s+, \b; all are
\* searched with re.IGNORECASE, so the words are kept in lower case
REFERENCE_HEADERS ==
    << << W_references >>,
       << W_bibliography >>,
       << W_works, W_cited >>,
       << W_literature, W_cited >>,
       << W_cited, W_works >>,
       << W_references >>,
       << W_bibliography >> >>

\* The end of the match of header pattern pat that starts at offset i, or -1.
HeaderMatchAt(t, i, pat) ==
    LET w1 == pat[1]
        e1 == i + Len(w1)
        ws == IF e1 <= Len(t) THEN RunEnd(t, e1, Whitespace) ELSE e1
        e  == IF Len(pat) = 1 THEN e1 ELSE ws + Len(pat[2])
    IN  IF /\ (i = 0 \/ t[i] \notin WordChars)
           /\ LiteralAt(t, i, w1)
           /\ (Len(pat) = 2 => (ws > e1 /\ LiteralAt(t, ws, pat[2])))
           /\ (e = Len(t) \/ t[e+1] \notin WordChars)
        THEN e
        ELSE -1

\* re.search(pattern, text, re.IGNORECASE).start(), or -1
HeaderSearch(t, pat) ==
    First(0, Len(t) - 1, LAMBDA i : HeaderMatchAt(t, i, pat) # -1)

\* the words of end_patterns: Appendix|Appendices|Supplementary|Acknowledgments?
END_WORDS == { W_appendix, W_appendices, W_supplementary, W_acknowledgment,
               W_acknowledgments }

\* Whether \n\s*(?:...)\s*\n matches at offset i: a line break, white space,
\* one of the words, then white space that holds a line break.
EndMatchAt(t, i) ==
    /\ i < Len(t)
    /\ t[i+1] = "\n"
    /\ LET w == RunEnd(t, i + 1, Whitespace)
       IN  \E word \in END_WORDS :
               /\ LiteralAt(t, w, word)
               /\ \E k \in (w + Len(word))..(RunEnd(t, w + Len(word), Whitespace) - 1) :
                      t[k+1] = "\n"

\* references_text cut at the first end pattern, if any
TrimAtEnd(references_text) ==
    LET e == First(0, Len(references_text) - 1,
                   LAMBDA i : EndMatchAt(references_text, i))
    IN  IF e = -1 THEN references_text ELSE Slice(references_text, 0, e)

\* len(text.split('\n'))
LineCount(t) == Cardinality({k \in 1..Len(t) : t[k] = "\n"}) + 1

MinFallbackLines == 50

\* a faulty FallbackFirstLine: 0.6 n rounded up
FallbackFirstLine_Ceil(n) == (n * 6 + 9) \div 10

\* int(n * 0.6): the product rounds to the integer 3n/5 when n is a multiple
\* of 5 and is at least 0.2 away from an integer otherwise
FallbackFirstLine(n) == (n * 6) \div 10

\* '\n'.join(lines[c:]): the text after its c-th line break
TailFromLine(t, c) ==
    IF c = 0 THEN t
    ELSE LET k == CHOOSE k \in 1..Len(t) :
                      /\ t[k] = "\n"
                      /\ Cardinality({m \in 1..k : t[m] = "\n"}) = c
         IN  Slice(t, k, Len(t))

\* what find_references_section returns when it returns None
NoSection == [by |-> "none", start |-> -1, text |-> None]

\* a faulty FirstHeaderPattern: the pattern whose match comes earliest in the text
FirstHeaderPattern_Earliest(at) ==
    LET hit == {p \in DOMAIN at : at[p] # -1}
    IN  IF hit = {} THEN 0
        ELSE CHOOSE p \in hit :
                 \A q \in hit : at[p] < at[q] \/ (at[p] = at[q] /\ p <= q)

\* the index of the first header pattern that matches anywhere, or 0;
\* at[p] is where pattern p first matches, or -1
FirstHeaderPattern(at) ==
    LET hit == {p \in DOMAIN REFERENCE_HEADERS : at[p] # -1}
    IN  IF hit = {} THEN 0 ELSE CHOOSE p \in hit : \A q \in hit : p <= q

\* find_references_section(text): the span (text), where it starts (start,
\* -1 outside the header branch) and how it was found (by)
find_references_section(text) ==
    LET at == [p \in DOMAIN REFERENCE_HEADERS |-> HeaderSearch(text, REFERENCE_HEADERS[p])]
        p == FirstHeaderPattern(at)
    IN  IF p # 0
        THEN [by |-> "header", start |-> at[p],
              text |-> TrimAtEnd(Slice(text, at[p], Len(text)))]
        ELSE LET n == LineCount(text)
                 last_portion == TailFromLine(text, FallbackFirstLine(n))
             IN  IF n > MinFallbackLines /\ DoiSearch(last_portion)
                 THEN [by |-> "tail", start |-> -1, text |-> last_portion]
                 ELSE NoSection

(***************************************************************************)
(* parse_numbered_citations                                                *)
(***************************************************************************)
NoMatch == [end |-> -1]

\* a marker, open \d+ close, at offset j: the lookahead (?=\[\d+\]) or (?=\(\d+\))
MarkerAt(t, j, open, close) ==
    /\ j < Len(t)
    /\ t[j+1] = open
    /\ LET d == RunEnd(t, j + 1, Digits)
       IN  d > j + 1 /\ d < Len(t) /\ t[d+1] = close

\* The match of  open(\d+)close\s*([^ open close]+?)(?=open\d+close|\Z)  that
\* starts at offset i.  The lazy body holds no delimiter, so the lookahead can
\* only succeed where the run of non-delimiters ends (nb); \s* is greedy and
\* gives back one character when it has eaten the whole body.
DelimitedMatch(t, i, open, close) ==
    IF ~(i < Len(t) /\ t[i+1] = open) THEN NoMatch
    ELSE LET d == RunEnd(t, i + 1, Digits)
         IN  IF ~(d > i + 1 /\ d < Len(t) /\ t[d+1] = close) THEN NoMatch
             ELSE LET m  == d + 1
                      w  == RunEnd(t, m, Whitespace)
                      nb == RunEndNot(t, m, {open, close})
                  IN  IF nb > m /\ (nb = Len(t) \/ MarkerAt(t, nb, open, close))
                      THEN [start |-> i, end |-> nb,
                            group1 |-> Slice(t, i + 1, d),
                            group2 |-> Slice(t, IF w < nb THEN w ELSE nb - 1, nb)]
                      ELSE NoMatch

\* ^ under re.MULTILINE
LineStart(t, i) == i = 0 \/ t[i] = "\n"

\* the lookahead (?=^\d+\.) at offset j
DotMarkerAt(t, j) ==
    /\ LineStart(t, j)
    /\ LET d == RunEnd(t, j, Digits)
       IN  d > j /\ d < Len(t) /\ t[d+1] = "."

\* The match of  ^(\d+)\.\s*([^0-9].+?)(?=^\d+\.|\Z)  (MULTILINE, DOTALL) that
\* starts at offset i.  \s* is greedy and backs off until a non-digit with one
\* more character after it follows (p); the lazy body then ends at the first
\* offset where the lookahead holds (j).
DotMatch(t, i) ==
    IF ~(i < Len(t) /\ LineStart(t, i)) THEN NoMatch
    ELSE LET d == RunEnd(t, i, Digits)
         IN  IF ~(d > i /\ d < Len(t) /\ t[d+1] = ".") THEN NoMatch
             ELSE LET m == d + 1
                      w == RunEnd(t, m, Whitespace)
                      p == Last(m, w, LAMBDA q : q + 2 <= Len(t) /\ t[q+1] \notin Digits)
                      j == First(p + 2, Len(t),
                                 LAMBDA k : k = Len(t) \/ DotMarkerAt(t, k))
                  IN  IF p = -1 THEN NoMatch
                      ELSE [start |-> i, end |-> j,
                            group1 |-> Slice(t, i, d),
                            group2 |-> Slice(t, p, j)]

\* patterns, in the order they are tried
patterns == <<"bracket", "dot", "paren">>

\* the match of the pattern of a style that starts at offset i
PatternMatch(style, t, i) ==
    CASE style = "bracket" -> DelimitedMatch(t, i, "[", "]")
      [] style = "dot"     -> DotMatch(t, i)
      [] style = "paren"   -> DelimitedMatch(t, i, "(", ")")

\* list(re.finditer(pattern, text, flags)) from offset pos on
RECURSIVE FindIter(_, _, _)
FindIter(style, t, pos) ==
    LET s == First(pos, Len(t) - 1, LAMBDA i : PatternMatch(style, t, i).end # -1)
        m == PatternMatch(style, t, s)
    IN  IF s = -1 THEN <<>> ELSE <<m>> \o FindIter(style, t, m.end)

MinMatches == 3

\* a faulty Confident: 3 matches are enough
Confident_AtLeast(matches) == Len(matches) >= MinMatches

\* if matches and len(matches) > 3
Confident(matches) == Len(matches) > MinMatches

MinBodyLength == 20

\* if len(text_content) > 20
LongEnough(text_content) == Len(text_content) > MinBodyLength

\* a faulty EntriesOf: entries are numbered by position, not as printed
EntriesOf_ByPosition(matches) ==
    LET all == [n \in 1..Len(matches) |->
                   [num |-> n, text |-> Strip(matches[n].group2)]]
    IN  SelectSeq(all, LAMBDA c : LongEnough(c.text))

\* the inner loop: (int(group 1), group 2 stripped) of the matches kept
EntriesOf(matches) ==
    LET all == [n \in 1..Len(matches) |->
                   [num |-> ParseInt(matches[n].group1),
                    text |-> Strip(matches[n].group2)]]
    IN  SelectSeq(all, LAMBDA c : LongEnough(c.text))

\* the index of the first pattern whose matches pass the threshold, or 0;
\* found[k] is the list of matches of pattern k
AcceptedPattern(found) ==
    LET ok == {k \in DOMAIN patterns : Confident(found[k])}
    IN  IF ok = {} THEN 0 ELSE CHOOSE k \in ok : \A q \in ok : k <= q

parse_numbered_citations(text) ==
    LET found == [k \in DOMAIN patterns |-> FindIter(patterns[k], text, 0)]
        k == AcceptedPattern(found)
    IN  IF k = 0 THEN <<>> ELSE EntriesOf(found[k])

(***************************************************************************)
(* extract_citations: the steps of the pipeline.                           *)
(***************************************************************************)
MaxCitationText == 500

\* the display text of a citation synthesized from a DOI starts with this
DOI_PREFIX ==
    <<"D", "O", "I", ":", " ">>

\* a faulty MatchDoi: the comparison keeps the case
MatchDoi_CaseSensitive(dois, text) ==
    LET hit(n) == IsSubstring(dois[n], text)
        n == First(1, Len(dois), hit)
    IN  IF n = -1 THEN None ELSE dois[n]

\* the first d of all_dois with d.lower() in text.lower(), or None
MatchDoi(dois, text) ==
    LET hit(n) == IsSubstring(Lower(dois[n]), Lower(text))
        n == First(1, Len(dois), hit)
    IN  IF n = -1 THEN None ELSE dois[n]

\* a faulty Truncate: the text is kept whole
Truncate_None(text) == text

\* text[:500]
Truncate(text) == SubSeq(text, 1, IF Len(text) < MaxCitationText THEN Len(text)
                                  ELSE MaxCitationText)

\* the citation built from a parsed entry
ParsedCitation(c, dois) ==
    [number |-> c.num, text |-> Truncate(c.text), doi |-> MatchDoi(dois, c.text)]

\* the citation built from the i-th DOI when nothing was parsed
DoiCitation(i, doi) ==
    [number |-> i, text |-> DOI_PREFIX \o doi, doi |-> doi]

\* the citations list built from parsed_citations and all_dois
BuildCitations(parsed, dois) ==
    IF parsed # <<>>
    THEN [n \in 1..Len(parsed) |-> ParsedCitation(parsed[n], dois)]
    ELSE [i \in 1..Len(dois) |-> DoiCitation(i, dois[i])]

\* a faulty NoTextResult: the error description is left out
NoTextResult_NoError(pages) ==
    [success |-> FALSE, total_pages |-> pages, citations |-> <<>>,
     dois_found |-> <<>>, error |-> None]

\* the result returned when the text is empty
NoTextResult(pages) ==
    [success |-> FALSE, total_pages |-> pages, citations |-> <<>>,
     dois_found |-> <<>>, error |-> "No text could be extracted from PDF"]

\* the result returned on FileNotFoundError
NotFoundResult ==
    [success |-> FALSE, total_pages |-> 0, citations |-> <<>>,
     dois_found |-> <<>>, error |-> "PDF not found"]

\* the result returned on any other exception
FailedResult ==
    [success |-> FALSE, total_pages |-> 0, citations |-> <<>>,
     dois_found |-> <<>>, error |-> "PDF extraction failed"]

\* a faulty SuccessResult: an empty citation list is reported as a failure
SuccessResult_FailWhenEmpty(pages, citations, dois) ==
    [success |-> citations # <<>>, total_pages |-> pages, citations |-> citations,
     dois_found |-> dois,
     error |-> IF citations # <<>> THEN None ELSE "No citations found"]

\* the result returned at the end of the try block
SuccessResult(pages, citations, dois) ==
    [success |-> TRUE, total_pages |-> pages, citations |-> citations,
     dois_found |-> dois, error |-> None]

\* ref_text after "if not ref_text: ref_text = full_text"
SectionOrFullText(found, text) ==
    IF found.text = None \/ found.text = <<>> THEN text ELSE found.text

\* extract_text_from_pdf: the file is missing, pdfplumber raises, or the
\* text and the page count come back
ExtractText ==
    /\ pc = "start"
    /\ \/ /\ pdf.kind = "missing"
          /\ result' = NotFoundResult
          /\ pc' = "done"
          /\ UNCHANGED <<full_text, page_count>>
       \/ /\ pdf.kind = "unreadable"
          /\ result' = FailedResult
          /\ pc' = "done"
          /\ UNCHANGED <<full_text, page_count>>
       \/ /\ pdf.kind = "ok"
          /\ full_text' = pdf.text
          /\ page_count' = pdf.pages
          /\ pc' = "text_obtained"
          /\ UNCHANGED result
    /\ UNCHANGED <<pdf, section, ref_text, all_dois, parsed_citations>>
    /\ UNCHANGED verifier_vars

\* if not full_text: return the failure
NoText ==
    /\ pc = "text_obtained"
    /\ full_text = <<>>
    /\ result' = NoTextResult(page_count)
    /\ pc' = "done"
    /\ UNCHANGED <<pdf, full_text, page_count, section, ref_text, all_dois,
                   parsed_citations>>
    /\ UNCHANGED verifier_vars

\* ref_text = find_references_section(full_text), or full_text
FindSection ==
    /\ pc = "text_obtained"
    /\ full_text # <<>>
    /\ LET found == find_references_section(full_text)
       IN  /\ section' = found
           /\ ref_text' = SectionOrFullText(found, full_text)
    /\ pc' = "section_located"
    /\ UNCHANGED <<pdf, full_text, page_count, all_dois, parsed_citations, result>>
    /\ UNCHANGED verifier_vars

\* all_dois = extract_dois(ref_text)
ExtractDois ==
    /\ pc = "section_located"
    /\ all_dois' = extract_dois(ref_text)
    /\ pc' = "dois_extracted"
    /\ UNCHANGED <<pdf, full_text, page_count, section, ref_text,
                   parsed_citations, result>>
    /\ UNCHANGED verifier_vars

\* parsed_citations = parse_numbered_citations(ref_text)
ParseCitations ==
    /\ pc = "dois_extracted"
    /\ parsed_citations' = parse_numbered_citations(ref_text)
    /\ pc' = "entries_segmented"
    /\ UNCHANGED <<pdf, full_text, page_count, section, ref_text, all_dois, result>>
    /\ UNCHANGED verifier_vars

\* build the citation objects and return the result
Assemble ==
    /\ pc = "entries_segmented"
    /\ result' = SuccessResult(page_count,
                               BuildCitations(parsed_citations, all_dois), all_dois)
    /\ pc' = "done"
    /\ UNCHANGED <<pdf, full_text, page_count, section, ref_text, all_dois,
                   parsed_citations>>
    /\ UNCHANGED verifier_vars

ExtractorNext ==
    \/ ExtractText
    \/ NoText
    \/ FindSection
    \/ ExtractDois
    \/ ParseCitations
    \/ Assemble

(***************************************************************************)
(* verifier.py: clean_doi and verify_doi                                   *)
(***************************************************************************)
\* the URL prefixes verifier.clean_doi removes
P_HTTPS_DOI ==
    <<"h", "t", "t", "p", "s", ":", "/", "/", "d", "o", "i", ".", "o", "r", "g", "/">>

P_HTTP_DOI ==
    <<"h", "t", "t", "p", ":", "/", "/", "d", "o", "i", ".", "o", "r", "g", "/">>

P_HTTPS_DX ==
    <<"h", "t", "t", "p", "s", ":", "/", "/", "d", "x", ".", "d", "o", "i", ".", "o", "r", "g", "/">>

P_HTTP_DX ==
    <<"h", "t", "t", "p", ":", "/", "/", "d", "x", ".", "d", "o", "i", ".", "o", "r", "g", "/">>

P_DOI_LOWER ==
    <<"d", "o", "i", ":">>

P_DOI_UPPER ==
    <<"D", "O", "I", ":">>

\* prefixes, in the order they are tried
prefixes ==
    << P_HTTPS_DOI,
       P_HTTP_DOI,
       P_HTTPS_DX,
       P_HTTP_DX,
       P_DOI_LOWER,
       P_DOI_UPPER >>

\* the loop over prefixes: the first prefix doi starts with is removed
StripPrefix(doi) ==
    LET n == First(1, Len(prefixes), LAMBDA k : StartsWith(doi, prefixes[k]))
    IN  IF n = -1 THEN doi ELSE Slice(doi, Len(prefixes[n]), Len(doi))

\* the characters the verifier's rstrip strips: . , ; : ) ] }
VerifierTrailing == {".", ",", ";", ":", ")", "]", "}"}

\* whether %2F stands at offset i
EncodedSlashAt(t, i) ==
    i + 3 <= Len(t) /\ t[i+1] = "%" /\ t[i+2] = "2" /\ t[i+3] = "F"

\* doi.replace("%2F", "/")
RECURSIVE DecodeSlash(_)
DecodeSlash(t) ==
    LET s == First(0, Len(t) - 1, LAMBDA i : EncodedSlashAt(t, i))
    IN  IF s = -1 THEN t
        ELSE Slice(t, 0, s) \o <<"/">> \o DecodeSlash(Slice(t, s + 3, Len(t)))

\* clean_doi of verifier.py
verifier_clean_doi(doi) ==
    DecodeSlash(RStrip(StripPrefix(Strip(doi)), VerifierTrailing))

MinShapeDigits == 4

\* re.match(r'^10\.\d{4,}/.+$', s): . stops at a line break and $ also holds
\* just before a final line break
ShapeOk(s) ==
    /\ Len(s) >= 3
    /\ s[1] = "1" /\ s[2] = "0" /\ s[3] = "."
    /\ LET d == RunEnd(s, 3, Digits)
           r == RunEndNot(s, d + 1, {"\n"})
       IN  /\ d - 3 >= MinShapeDigits
           /\ d < Len(s)
           /\ s[d+1] = "/"
           /\ r > d + 1
           /\ (r = Len(s) \/ (r = Len(s) - 1 /\ s[Len(s)] = "\n"))

\* what requests.get and the handling of the response can come to
Outcomes == {"200", "404", "other_status", "timeout", "request_exception",
             "unexpected"}

\* the VerificationResult for an outcome of the request
ResponseResult(cleaned, outcome) ==
    CASE outcome = "200" -> [doi |-> cleaned, valid |-> TRUE, error |-> None]
      [] outcome = "404" ->
             [doi |-> cleaned, valid |-> FALSE, error |-> "DOI not found in CrossRef"]
      [] outcome = "other_status" ->
             [doi |-> cleaned, valid |-> FALSE, error |-> "CrossRef API error"]
      [] outcome = "timeout" ->
             [doi |-> cleaned, valid |-> FALSE, error |-> "CrossRef API timeout"]
      [] outcome = "request_exception" ->
             [doi |-> cleaned, valid |-> FALSE, error |-> "Request failed"]
      [] outcome = "unexpected" ->
             [doi |-> cleaned, valid |-> FALSE, error |-> "Unexpected error"]

\* cleaned_doi = clean_doi(doi)
VerifyClean ==
    /\ vpc = "start"
    /\ cleaned_doi' = verifier_clean_doi(doi_arg)
    /\ vpc' = "cleaned"
    /\ UNCHANGED <<doi_arg, requests, vresult>>
    /\ UNCHANGED extractor_vars

\* if not cleaned_doi: return
VerifyRejectEmpty ==
    /\ vpc = "cleaned"
    /\ cleaned_doi = <<>>
    /\ vresult' = [doi |-> doi_arg, valid |-> FALSE,
                   error |-> "Empty or invalid DOI format"]
    /\ vpc' = "done"
    /\ UNCHANGED <<doi_arg, cleaned_doi, requests>>
    /\ UNCHANGED extractor_vars

\* a faulty PassesFormat: the shape check is skipped
PassesFormat_Always(cleaned) == TRUE

\* whether verify_doi goes on to the request
PassesFormat(cleaned) == ShapeOk(cleaned)

\* if not re.match(...): return
VerifyRejectFormat ==
    /\ vpc = "cleaned"
    /\ cleaned_doi # <<>>
    /\ ~PassesFormat(cleaned_doi)
    /\ vresult' = [doi |-> doi_arg, valid |-> FALSE, error |-> "Invalid DOI format"]
    /\ vpc' = "done"
    /\ UNCHANGED <<doi_arg, cleaned_doi, requests>>
    /\ UNCHANGED extractor_vars

\* requests.get(url, ...): the request leaves
VerifyRequest ==
    /\ vpc = "cleaned"
    /\ cleaned_doi # <<>>
    /\ PassesFormat(cleaned_doi)
    /\ requests' = Append(requests, cleaned_doi)
    /\ vpc' = "requested"
    /\ UNCHANGED <<doi_arg, cleaned_doi, vresult>>
    /\ UNCHANGED extractor_vars

\* the response, or the exception, and the result returned for it
VerifyResponse ==
    /\ vpc = "requested"
    /\ \E outcome \in Outcomes : vresult' = ResponseResult(cleaned_doi, outcome)
    /\ vpc' = "done"
    /\ UNCHANGED <<doi_arg, cleaned_doi, requests>>
    /\ UNCHANGED extractor_vars

VerifierNext ==
    \/ VerifyClean
    \/ VerifyRejectEmpty
    \/ VerifyRejectFormat
    \/ VerifyRequest
    \/ VerifyResponse

(***************************************************************************)
(* Documents and initial states.                                           *)
(***************************************************************************)
MissingPdf == [kind |-> "missing", text |-> <<>>, pages |-> 0]

UnreadablePdf == [kind |-> "unreadable", text |-> <<>>, pages |-> 0]

\* a PDF whose pages yield no text
ImagePdf == [kind |-> "ok", text |-> <<>>, pages |-> 1]

TextPdf(text) == [kind |-> "ok", text |-> text, pages |-> 1]

FailingPdfs == {MissingPdf, UnreadablePdf, ImagePdf}

\* the decimal numeral of n, 0 <= n < 100
Numeral(n) ==
    IF n < 10 THEN <<DigitSeq[n + 1]>>
    ELSE <<DigitSeq[(n \div 10) + 1], DigitSeq[(n % 10) + 1]>>

\* the marker of entry number n in a numbering style
Marker(style, n) ==
    CASE style = "bracket" -> <<"[">> \o Numeral(n) \o <<"]", " ">>
      [] style = "dot"     -> Numeral(n) \o <<".", " ">>
      [] style = "paren"   -> <<"(">> \o Numeral(n) \o <<")", " ">>

\* the entries es, numbered from first on, one per line
RECURSIVE EntriesText(_, _)
EntriesText(es, first) ==
    IF es = <<>> THEN <<>>
    ELSE Marker(es[1].style, first) \o es[1].body \o <<"\n">>
         \o EntriesText(Tail(es), first + 1)

\* the sequences over S of length at most n
SeqsUpTo(S, n) == UNION {[1..k -> S] : k \in 0..n}

MaxEntries == 4

\* a body of 20 characters that holds a DOI
ShortBody ==
    <<"p", " ", "1", "0", ".", "1", "0", "0", "0", "/", "x", "y", "z", "1", "2", "3", "4", "5", "6", "7">>

\* a body of 21 characters with a parenthesized aside and a DOI
AsideBody ==
    <<"S", " ", "(", "7", ")", " ", "1", "0", ".", "1", "0", "0", "0", "/", "a", "b", "c", "d", "e", "f", "g">>

EntryStyles == {"bracket", "dot", "paren"}

\* a body of 21 characters without brackets or parentheses
LongBody ==
    <<"T", " ", "1", "0", ".", "1", "0", "0", "0", "/", "a", "b", "c", "d", "e", "f", "g", "h", "i", "j", "k">>

SegEntries ==
    {[style |-> "bracket", body |-> ShortBody],
     [style |-> "bracket", body |-> AsideBody],
     [style |-> "dot", body |-> AsideBody],
     [style |-> "paren", body |-> ShortBody],
     [style |-> "paren", body |-> LongBody]}

\* bibliographies of up to MaxEntries entries, numbered from 0 or from 1
SegDocuments ==
    {TextPdf(EntriesText(es, first)) :
        es \in SeqsUpTo(SegEntries, MaxEntries), first \in {0, 1}}
    \cup FailingPdfs

\* an entry without a DOI
PlainBody ==
    <<"P", "l", "a", "i", "n", " ", "e", "n", "t", "r", "y", ",", " ", "n", "o", " ", "i", "d", "e", "n", "t", "i", "f", "i", "e", "r">>

\* an entry with one DOI
AlphaBody ==
    <<"A", "l", "p", "h", "a", " ", "p", "a", "p", "e", "r", " ", "1", "0", ".", "1", "0", "0", "0", "/", "a", "b", "c", ".">>

\* an entry with two DOIs
BetaBody ==
    <<"B", "e", "t", "a", " ", "1", "0", ".", "1", "0", "0", "0", "/", "x", "y", "z", " ", "1", "0", ".", "1", "0", "0", "0", "/", "a", "b", "c">>

\* an entry with the first DOI in upper case
GammaBody ==
    <<"G", "a", "m", "m", "a", " ", "s", "t", "u", "d", "y", " ", "1", "0", ".", "1", "0", "0", "0", "/", "A", "B", "C">>

\* an entry with a DOI that extends another
DeltaBody ==
    <<"D", "e", "l", "t", "a", ",", " ", "s", "e", "e", " ", "1", "0", ".", "1", "0", "0", "0", "/", "a", "b", "c", "d">>

AssocBodies == {PlainBody, AlphaBody, BetaBody, GammaBody, DeltaBody}

AssocEntries == [style : {"bracket"}, body : AssocBodies]

\* bracketed bibliographies whose entries hold zero, one or two DOIs
AssocDocuments ==
    {TextPdf(EntriesText(es, 1)) : es \in SeqsUpTo(AssocEntries, MaxEntries)}
    \cup FailingPdfs

\* the concatenation of a sequence of texts
RECURSIVE Concat(_)
Concat(parts) == IF parts = <<>> THEN <<>> ELSE Head(parts) \o Concat(Tail(parts))

L_references ==
    <<"R", "e", "f", "e", "r", "e", "n", "c", "e", "s", "\n">>

L_bibliography ==
    <<"B", "i", "b", "l", "i", "o", "g", "r", "a", "p", "h", "y", "\n">>

L_works_cited ==
    <<"W", "o", "r", "k", "s", " ", "C", "i", "t", "e", "d", "\n">>

L_cited_works ==
    <<"c", "i", "t", "e", "d", " ", " ", "w", "o", "r", "k", "s", "\n">>

L_literature_cited ==
    <<"L", "I", "T", "E", "R", "A", "T", "U", "R", "E", " ", "C", "I", "T", "E", "D", "\n">>

L_preferences ==
    <<"P", "r", "e", "f", "e", "r", "e", "n", "c", "e", "s", " ">>

L_appendix ==
    <<"\n", "A", "p", "p", "e", "n", "d", "i", "x", "\n">>

L_entry ==
    <<"[", "1", "]", " ", "1", "0", ".", "1", "0", "0", "0", "/", "a", "b", "c", "\n">>

\* a DOI on a line of its own
LineDoi ==
    <<"1", "0", ".", "1", "0", "0", "0", "/", "a", "b", "c">>

MaxParts == 3

LocParts == {L_references, L_bibliography, L_works_cited, L_cited_works,
             L_literature_cited, L_preferences, L_appendix, L_entry}

\* texts of headers, near-headers, an end marker and an entry, in any order
HeaderDocuments == {TextPdf(Concat(ps)) : ps \in SeqsUpTo(LocParts, MaxParts)}

MaxLines == 54

\* n lines, all empty but line d, which holds a DOI (d = 0: no DOI)
LinesText(n, d) ==
    IF d = 0 THEN Rep("\n", n - 1)
    ELSE Rep("\n", d - 1) \o LineDoi \o Rep("\n", n - d)

\* texts without a header, of about MinFallbackLines lines
LineDocuments ==
    {TextPdf(LinesText(n, d)) : n \in (MinFallbackLines - 1)..MaxLines, d \in 0..MaxLines}

LocDocuments == HeaderDocuments \cup LineDocuments \cup FailingPdfs

D_four ==
    <<"1", "0", ".", "1", "2", "3", "4", "/">>

D_seven ==
    <<"1", "0", ".", "1", "2", "3", "4", "5", "6", "7", "/">>

D_three ==
    <<"1", "0", ".", "1", "2", "3", "/">>

D_abc ==
    <<"a", "b", "c">>

D_dot ==
    <<".">>

D_amp_open ==
    <<"&", "a">>

D_entity ==
    <<"&", "b", ";">>

D_amp_close ==
    <<"m", "p", ";">>

D_space ==
    <<" ">>

MaxDoiParts == 4

DoiHeads == {D_four, D_seven, D_three}

DoiParts == {D_abc, D_dot, D_amp_open, D_entity, D_amp_close, D_space}

\* a registrant prefix followed by up to MaxDoiParts pieces of suffix text
DoiDocuments ==
    {TextPdf(h \o Concat(ps)) : h \in DoiHeads, ps \in SeqsUpTo(DoiParts, MaxDoiParts)}
    \cup FailingPdfs

CapSpread == 2

\* lengths around the cap of text[:500]
CapLengths == (MaxCitationText - CapSpread)..(MaxCitationText + CapSpread)

\* MinMatches + 1 bracketed entries, entry j with a body of k characters
CapEntries(j, k) ==
    [n \in 1..(MinMatches + 1) |->
        [style |-> "bracket", body |-> IF n = j THEN Rep("y", k) ELSE AsideBody]]

\* a lone DOI for which the text DOI_PREFIX \o doi has k characters
CapDoi(k) == D_four \o Rep("a", k - Len(DOI_PREFIX) - Len(D_four))

CapDocuments ==
    {TextPdf(EntriesText(CapEntries(j, k), 1)) : j \in 1..(MinMatches + 1), k \in CapLengths}
    \cup {TextPdf(CapDoi(k)) : k \in CapLengths}
    \cup FailingPdfs

A_none ==
    <<>>

A_space ==
    <<" ">>

A_core ==
    <<"1", "0", ".", "1", "2", "3", "4", "/", "a", "b", "c">>

A_short_registrant ==
    <<"1", "0", ".", "1", "2", "3", "/", "a", "b", "c">>

A_no_suffix ==
    <<"1", "0", ".", "1", "2", "3", "4", "/">>

A_encoded ==
    <<"1", "0", ".", "1", "2", "3", "4", "%", "2", "F", "a", "b", "c">>

A_letter_o ==
    <<"1", "O", ".", "1", "2", "3", "4", "/", "a", "b", "c">>

MaxTrail == 2

ArgPrefixes == {A_none, A_space, P_DOI_LOWER, P_HTTPS_DOI}

ArgCores == {A_none, A_core, A_short_registrant, A_no_suffix, A_encoded, A_letter_o}

ArgTrails == SeqsUpTo({".", ")", "\n", "x"}, MaxTrail)

\* the arguments verify_doi is called with
DoiArguments == {p \o c \o tr : p \in ArgPrefixes, c \in ArgCores, tr \in ArgTrails}

ExtractorInit(documents) ==
    /\ pdf \in documents
    /\ pc = "start"
    /\ full_text = <<>>
    /\ page_count = 0
    /\ section = NoSection
    /\ ref_text = <<>>
    /\ all_dois = <<>>
    /\ parsed_citations = <<>>
    /\ result = None
    /\ vpc = "idle"
    /\ doi_arg = <<>>
    /\ cleaned_doi = <<>>
    /\ requests = <<>>
    /\ vresult = None

VerifierInit ==
    /\ pdf = MissingPdf
    /\ pc = "idle"
    /\ full_text = <<>>
    /\ page_count = 0
    /\ section = NoSection
    /\ ref_text = <<>>
    /\ all_dois = <<>>
    /\ parsed_citations = <<>>
    /\ result = None
    /\ vpc = "start"
    /\ doi_arg \in DoiArguments
    /\ cleaned_doi = <<>>
    /\ requests = <<>>
    /\ vresult = None

Init == ExtractorInit(SegDocuments)

Next == ExtractorNext

\* extract_citations on numbered bibliographies
Spec == Init /\ [][Next]_vars

\* extract_citations on bracketed entries that hold DOIs
SpecAssoc == ExtractorInit(AssocDocuments) /\ [][ExtractorNext]_vars

\* extract_citations on texts with headers and on texts of many lines
SpecLoc == ExtractorInit(LocDocuments) /\ [][ExtractorNext]_vars

\* extract_citations on texts that hold one DOI-shaped token
SpecDoi == ExtractorInit(DoiDocuments) /\ [][ExtractorNext]_vars

\* extract_citations on entries and DOIs about as long as the cap
SpecCap == ExtractorInit(CapDocuments) /\ [][ExtractorNext]_vars

\* verify_doi
SpecVerify == VerifierInit /\ [][VerifierNext]_vars

(***************************************************************************)
(* The claims.                                                             *)
(***************************************************************************)
Returned == pc = "done"

Located == pc \in {"section_located", "dois_extracted", "entries_segmented", "done"}

Extracted == pc \in {"dois_extracted", "entries_segmented", "done"}

Segmented == pc \in {"entries_segmented", "done"}

IsPrefix(a, b) == Len(a) <= Len(b) /\ \A k \in 1..Len(a) : a[k] = b[k]

IsSuffix(a, b) ==
    Len(a) <= Len(b) /\ \A k \in 1..Len(a) : a[k] = b[Len(b) - Len(a) + k]

\* C1: every result with success = false has an empty citations list, an
\* empty DOI list and an error description, whatever the failure was
C1_FailureIsEmptyWithError ==
    (Returned /\ ~result.success) =>
        /\ result.citations = <<>>
        /\ result.dois_found = <<>>
        /\ result.error # None

\* C1: the conversion yielded no text and the failure was returned
C1_Witness ==
    /\ Returned
    /\ pdf = ImagePdf
    /\ ~result.success
    /\ result.error = "No text could be extracted from PDF"

C3_Matches(style) == FindIter(style, ref_text, 0)

\* the first of bracketed, dot-numbered, parenthesized with 4 matches or more
C3_Accepted ==
    IF Len(C3_Matches("bracket")) >= 4 THEN "bracket"
    ELSE IF Len(C3_Matches("dot")) >= 4 THEN "dot"
    ELSE IF Len(C3_Matches("paren")) >= 4 THEN "paren"
    ELSE "none"

\* the matches of a style whose trimmed body has 21 characters or more
C3_Entries(style) ==
    LET ms == C3_Matches(style)
        all == [n \in 1..Len(ms) |->
                   [num |-> ParseInt(ms[n].group1), text |-> Strip(ms[n].group2)]]
    IN  SelectSeq(all, LAMBDA c : Len(c.text) >= 21)

\* C3: the entries returned are those of the first convention, in the order
\* bracketed, dot-numbered, parenthesized, that has more than 3 matches (3
\* are not enough, 4 are); matches with a trimmed body of 20 characters or
\* fewer count for the threshold and are left out; no other convention
\* contributes
C3_FirstConfidentConvention ==
    Segmented =>
        parsed_citations =
            IF C3_Accepted = "none" THEN <<>> ELSE C3_Entries(C3_Accepted)

\* C3: exactly 4 bracketed matches, one of them short and dropped, while
\* parenthesized markers also match and are not reported
C3_Witness ==
    /\ Segmented
    /\ Len(C3_Matches("bracket")) = 4
    /\ Len(parsed_citations) = 3
    /\ Len(C3_Matches("paren")) > 0
    /\ parsed_citations = C3_Entries("bracket")

C4_Contains(d, text) == IsSubstring(Lower(d), Lower(text))

\* C4: with segmented entries, each citation carries the first DOI of
\* all_dois, in its order, that the entry text contains ignoring case, and
\* None when it contains none
C4_FirstContainedDoi ==
    (Returned /\ result.success /\ parsed_citations # <<>>) =>
        /\ Len(result.citations) = Len(parsed_citations)
        /\ \A i \in DOMAIN parsed_citations :
               LET txt == parsed_citations[i].text
                   c   == result.citations[i]
                   in  == {n \in DOMAIN all_dois : C4_Contains(all_dois[n], txt)}
               IN  IF in = {} THEN c.doi = None
                   ELSE \E n \in in : c.doi = all_dois[n] /\ \A m \in in : n <= m

\* C4: an entry that holds two DOIs of the list carries the one discovered
\* first, which is not the one that comes first in the entry, and another
\* entry carries none
C4_Witness ==
    /\ Returned
    /\ result.success
    /\ Len(all_dois) >= 2
    /\ \E i \in DOMAIN parsed_citations :
           /\ parsed_citations[i].text = BetaBody
           /\ result.citations[i].doi = all_dois[1]
           /\ C4_Contains(all_dois[2], BetaBody)
           /\ IsPrefix(all_dois[2], SubSeq(BetaBody, 6, Len(BetaBody)))
    /\ \E j \in DOMAIN result.citations : result.citations[j].doi = None

\* the DoiToken invariant
C5_DoiToken(d) ==
    /\ Len(d) > 10
    /\ d[1] = "1" /\ d[2] = "0" /\ d[3] = "."
    /\ \E r \in 4..9 :
           /\ Len(d) > 3 + r + 1
           /\ \A k \in 1..r : d[3 + k] \in Digits
           /\ d[3 + r + 1] = "/"
    /\ d[Len(d)] \notin TrailingPunctuation
    /\ \A i \in 0..(Len(d) - 1) : EntityAt(d, i) = -1

\* C5: every string extract_dois returns begins with 10., 4 to 9 digits, a
\* slash and a non-empty suffix, ends in no stripped punctuation, holds no
\* entity &name; and is longer than 10 characters
C5_DoiTokens ==
    Extracted => \A n \in DOMAIN all_dois : C5_DoiToken(all_dois[n])

\* C6, as stated: every citation text has at most 500 characters
C6_TextAtMost500 ==
    (Returned /\ result.success) =>
        \A i \in DOMAIN result.citations : Len(result.citations[i].text) <= 500

\* C6, amended: the text of a citation from a segmented entry is the first
\* 500 characters of the entry text, so at most 500 long; the text of a
\* citation synthesized from a DOI is DOI_PREFIX followed by the whole DOI
C6_SegmentedTextCapped ==
    (Returned /\ result.success) =>
        IF parsed_citations # <<>>
        THEN \A i \in DOMAIN result.citations :
                 /\ Len(result.citations[i].text) <= 500
                 /\ IsPrefix(result.citations[i].text, parsed_citations[i].text)
                 /\ (Len(parsed_citations[i].text) >= 500
                        => Len(result.citations[i].text) = 500)
                 /\ (Len(parsed_citations[i].text) < 500
                        => result.citations[i].text = parsed_citations[i].text)
        ELSE \A i \in DOMAIN result.citations :
                 /\ result.citations[i].text = DOI_PREFIX \o all_dois[i]
                 /\ Len(result.citations[i].text) = Len(all_dois[i]) + 5

\* C6: an entry of more than 500 characters was cut to 500
C6_Witness ==
    /\ Returned
    /\ result.success
    /\ \E i \in DOMAIN parsed_citations :
           /\ Len(parsed_citations[i].text) > 500
           /\ Len(result.citations[i].text) = 500

\* C7, as stated: every citation number is at least 1
C7_NumbersPositive ==
    (Returned /\ result.success) =>
        \A i \in DOMAIN result.citations : result.citations[i].number >= 1

\* a marker with the number n is printed in ref_text
C7_Printed(n) ==
    \E style \in EntryStyles :
        \E o \in 0..Len(ref_text) :
            IsPrefix(Marker(style, n), Slice(ref_text, o, Len(ref_text)))

\* C7, amended: every citation number is a non-negative integer: the number
\* printed in the marker of the segmented entry, which may be 0, or the
\* 1-based position of the DOI when the citations come from the DOI list
C7_NumbersAsPrinted ==
    (Returned /\ result.success) =>
        \A i \in DOMAIN result.citations :
            /\ result.citations[i].number \in Nat
            /\ parsed_citations # <<>> =>
                   /\ result.citations[i].number = parsed_citations[i].num
                   /\ C7_Printed(result.citations[i].number)
            /\ parsed_citations = <<>> => result.citations[i].number = i

\* C7: a segmented entry printed with the number 0 was reported with number 0
C7_Witness ==
    /\ Returned
    /\ result.success
    /\ parsed_citations # <<>>
    /\ \E i \in DOMAIN result.citations :
           /\ result.citations[i].number = 0
           /\ C7_Printed(0)

\* the shape ^10\.\d{4,}/.+$ , spelled out
C8_Shape(s) ==
    \E r \in 4..Len(s) :
        /\ Len(s) >= 3 + r + 2
        /\ s[1] = "1" /\ s[2] = "0" /\ s[3] = "."
        /\ \A k \in 1..r : s[3 + k] \in Digits
        /\ s[3 + r + 1] = "/"
        /\ \A k \in (3 + r + 2)..(Len(s) - 1) : s[k] # "\n"
        /\ (s[Len(s)] = "\n" => Len(s) >= 3 + r + 3)

\* C8: verify_doi issues no request for a DOI whose cleaned form is empty or
\* fails the shape check: every request carries a cleaned DOI of the shape,
\* and a failing DOI ends in an invalid-format result with no request made
C8_NoRequestForBadShape ==
    /\ \A n \in DOMAIN requests : requests[n] # <<>> /\ C8_Shape(requests[n])
    /\ (vpc \in {"requested", "done"} /\ requests # <<>>) => requests = <<cleaned_doi>>
    /\ (vpc \in {"cleaned", "requested", "done"} /\ ~C8_Shape(cleaned_doi)) =>
           requests = <<>>
    /\ (vpc = "done" /\ ~C8_Shape(cleaned_doi)) =>
           /\ ~vresult.valid
           /\ vresult.error \in {"Empty or invalid DOI format", "Invalid DOI format"}

\* C8: a non-empty DOI that fails the shape check was rejected without a request
C8_Witness ==
    /\ vpc = "done"
    /\ cleaned_doi # <<>>
    /\ ~C8_Shape(cleaned_doi)
    /\ requests = <<>>
    /\ vresult.error = "Invalid DOI format"

\* the header phrases: References, Bibliography, Works Cited, Literature
\* Cited, Cited Works
C9_Phrases ==
    << << W_references >>, << W_bibliography >>, << W_works, W_cited >>,
       << W_literature, W_cited >>, << W_cited, W_works >> >>

\* where each phrase first matches in t, or -1
C9_Found(t) == [p \in DOMAIN C9_Phrases |-> HeaderSearch(t, C9_Phrases[p])]

\* the earliest position at which any phrase matches in t, or -1
C9_Earliest(t) ==
    LET at == C9_Found(t)
        hit == {at[p] : p \in DOMAIN at} \ {-1}
    IN  IF hit = {} THEN -1 ELSE CHOOSE o \in hit : \A q \in hit : o <= q

\* the first match of the first phrase, in their order, that matches in t, or -1
C9_FirstListed(t) ==
    LET at == C9_Found(t)
        hit == {p \in DOMAIN at : at[p] # -1}
    IN  IF hit = {} THEN -1 ELSE at[CHOOSE p \in hit : \A q \in hit : p <= q]

\* C9, as stated: the span starts at the earliest match of any header phrase
C9_StartsAtEarliestHeader ==
    (Located /\ section.by = "header") => section.start = C9_Earliest(full_text)

\* C9, amended: the span starts at the first match of the first phrase, in the
\* order References, Bibliography, Works Cited, Literature Cited, Cited Works,
\* that matches anywhere in the text, even when another phrase matches
\* earlier; from there it runs to the end of the text before end trimming
C9_StartsAtFirstListedPhrase ==
    Located =>
        /\ (section.by = "header") = (C9_FirstListed(full_text) # -1)
        /\ section.by = "header" =>
               LET span == Slice(full_text, section.start, Len(full_text))
               IN  /\ section.start = C9_FirstListed(full_text)
                   /\ IsPrefix(section.text, span)
                   /\ (\A i \in 0..(Len(span) - 1) : ~EndMatchAt(span, i))
                          => section.text = span

\* C9: the span starts at a phrase although another phrase matches earlier
C9_Witness ==
    /\ Located
    /\ section.by = "header"
    /\ C9_Earliest(full_text) # -1
    /\ C9_Earliest(full_text) < section.start

\* C10, as stated: the tail holds exactly the last floor(0.4 n) lines
C10_TailIsFloor ==
    (Located /\ section.by = "tail") =>
        LineCount(section.text) = (4 * LineCount(full_text)) \div 10

\* n - floor(0.6 n), which is ceil(0.4 n)
C10_TailLines(n) == n - ((3 * n) \div 5)

\* the last k lines of t hold a DOI-shaped token
C10_DoiInLastLines(t, k) ==
    \E o \in 1..Len(t) :
        /\ t[o] = "\n"
        /\ LineCount(Slice(t, o, Len(t))) = k
        /\ DoiSearch(Slice(t, o, Len(t)))

\* C10, amended: without a header the fallback applies only to texts of more
\* than 50 lines, and for n lines the candidate tail is the lines from index
\* floor(0.6 n) on, that is the last n - floor(0.6 n) = ceil(0.4 n) lines;
\* it is the span only if it holds a DOI-shaped token, else nothing is found
C10_TailIsCeil ==
    Located =>
        LET n == LineCount(full_text)
        IN  /\ section.by = "tail" =>
                   /\ n > 50
                   /\ C9_FirstListed(full_text) = -1
                   /\ LineCount(section.text) = C10_TailLines(n)
                   /\ IsSuffix(section.text, full_text)
                   /\ DoiSearch(section.text)
            /\ ( /\ C9_FirstListed(full_text) = -1
                 /\ n > 50
                 /\ C10_DoiInLastLines(full_text, C10_TailLines(n)) )
                   => section.by = "tail"
            /\ section.by = "none" => ref_text = full_text

\* C10: a text of 51 lines whose tail of 21 lines begins with the DOI
C10_Witness ==
    /\ Located
    /\ section.by = "tail"
    /\ LineCount(full_text) = 51
    /\ LineCount(section.text) = 21
    /\ IsPrefix(LineDoi, section.text)

====
